---- MODULE Spec2Model ----
(***************************************************************************)
(* Student course enrollment: the enrollment service (saveStudentCourses,  *)
(* checkTimetableClashes, dropCourse), the admin service (addTimetable,    *)
(* updateTimetable, deleteTimetable, addCourse) and the MySQL schema with  *)
(* its unique key and BEFORE INSERT triggers.                              *)
(*                                                                         *)
(* Spec      : the handlers run one after the other (each action is one    *)
(*             whole handler call, committed or rolled back).              *)
(* SpecEnroll, SpecAdmin, SpecChecker : the enrollment service, the        *)
(*             timetable mutations and the conflict checker, each alone    *)
(*             over every small timetable.                                 *)
(* SpecConc  : the handlers of several connections interleave at their     *)
(*             awaits; every statement is one step of the store.           *)
(* SpecConcFair : SpecConc with every connection's statements fairly run.  *)
(* SpecRequest : saveStudentCourses called with any JavaScript values.     *)
(* SpecMutations : addTimetable and updateTimetable of several connections *)
(*             on the courses one student holds.                           *)
(*                                                                         *)
(* TIME values are stored as minutes of the day; the driver hands them to  *)
(* JavaScript as 'HH:MM:SS' strings, modelled as sequences of character    *)
(* codes (digits 0..9, ':' = 10) that JavaScript compares lexically.       *)
(***************************************************************************)
EXTENDS Integers, Sequences, FiniteSets, Bags, TLC

VARIABLES
    courses,          \* table courses: rows [course_id, course_code, college_id]
    timetables,       \* table timetables: rows [timetable_id, course_id, day_of_week, start_time, end_time]
    student_courses,  \* table student_courses (committed rows): a bag of [student_id, course_id]
    nextCourseId,     \* AUTO_INCREMENT of courses
    nextTimetableId,  \* AUTO_INCREMENT of timetables
    last,             \* Spec: the last handler call and the result it returned
    conn              \* SpecConc: per connection, the handler running on it

vars == <<courses, timetables, student_courses, nextCourseId, nextTimetableId, last, conn>>

dbVars == <<courses, timetables, student_courses, nextCourseId, nextTimetableId>>

----------------------------------------------------------------------------
(* Bounds of the model *)

\* The AUTO_INCREMENT ids the serial specification hands out at most
MaxCourseId == 4
MaxTimetableId == 2

----------------------------------------------------------------------------
(* Schema data that no handler changes *)

colleges == {1, 2}

students == { [student_id |-> 1, name |-> "John Doe", college_id |-> 1],
              [student_id |-> 2, name |-> "Jane Smith", college_id |-> 1] }

validDays == <<"Monday", "Tuesday", "Wednesday", "Thursday", "Friday", "Saturday", "Sunday">>

DayIndex(d) == CHOOSE i \in 1..Len(validDays) : validDays[i] = d

IsValidDay(d) == \E i \in 1..Len(validDays) : validDays[i] = d

----------------------------------------------------------------------------
(* Broken variants of guards and store operations: a property that depends *)
(* on one of them fails when it is replaced by its variant                  *)

\* A day comparison that never matches
NeverSameDay(day1, day2) == FALSE

\* A college comparison that never reports a mismatch
NeverMismatch(studentCollege, courseCollege) == FALSE

\* A unique index that accepts every row
KeyNeverViolated(present, new) == FALSE

\* A failure message that names no course
NoCodes(rowSeq) == <<>>

\* A filter that keeps every element
KeepAll(seq, keep) == seq

\* Variant: the course list is used as it was sent
KeepDuplicates(ids) == ids

\* Variant: a DELETE that removes no row
DeleteNothing(bag, row) == bag

\* Variant: a store that enforces neither the CHECK nor the ENUM of timetables
AcceptEveryRow(row) == TRUE

\* The largest element where the smallest is meant
Max(S) == CHOOSE x \in S : \A y \in S : x >= y

----------------------------------------------------------------------------
(* Time-of-day values: TIME <-> 'HH:MM:SS' string, and JavaScript's string order *)

FormatTime(t) ==
    LET hh == t \div 60
        mm == t % 60
    IN  << hh \div 10, hh % 10, 10, mm \div 10, mm % 10, 10, 0, 0 >>

RECURSIVE ParseFields(_, _, _)
ParseFields(s, acc, cur) ==
    IF s = <<>> THEN Append(acc, cur)
    ELSE IF Head(s) = 10 THEN ParseFields(Tail(s), Append(acc, cur), 0)
    ELSE ParseFields(Tail(s), acc, cur * 10 + Head(s))

ParseTime(s) ==
    LET f == ParseFields(s, <<>>, 0)
    IN  f[1] * 60 + f[2]

RECURSIVE StrLess(_, _)
StrLess(a, b) ==
    IF b = <<>> THEN FALSE
    ELSE IF a = <<>> THEN TRUE
    ELSE IF Head(a) # Head(b) THEN Head(a) < Head(b)
    ELSE StrLess(Tail(a), Tail(b))

----------------------------------------------------------------------------
(* The conflict checker of the enrollment service *)

\* An overlap test that also counts intervals that only touch
timeSlotsTouch(start1, end1, start2, end2) ==
    ~StrLess(end2, start1) /\ ~StrLess(end1, start2)

\* An overlap test that asks whether the first interval starts inside the second
startsInside(start1, end1, start2, end2) ==
    ~StrLess(start1, start2) /\ StrLess(start1, end2)

\* Two slots are compared only when they fall on the same weekday: the checker's
\* per-day buckets, and day_of_week = day_of_week in the trigger and the admin queries
SameDay(day1, day2) == day1 = day2

timeSlotsOverlap(start1, end1, start2, end2) ==
    StrLess(start1, end2) /\ StrLess(start2, end1)

Fail(msg, detail) == [success |-> FALSE, error |-> msg, detail |-> detail]

Success(detail) == [success |-> TRUE, error |-> "", detail |-> detail]

\* The slots before position i that share slot i's day, in input order: the day's bucket
Bucket(tts, i) == { j \in 1..(i - 1) : SameDay(tts[j].day_of_week, tts[i].day_of_week) }

ClashesAt(tts, i) ==
    { j \in Bucket(tts, i) :
        timeSlotsOverlap(tts[i].start_time, tts[i].end_time,
                         tts[j].start_time, tts[j].end_time) }

Min(S) == CHOOSE x \in S : \A y \in S : x <= y

checkTimetableClashes(tts) ==
    LET hits == { i \in 1..Len(tts) : ClashesAt(tts, i) # {} }
    IN  IF hits = {} THEN Success(<<>>)
        ELSE LET i == Min(hits)
                 j == Min(ClashesAt(tts, i))
             IN  Fail("Timetable clash detected",
                      [day |-> tts[i].day_of_week, slot |-> tts[i], existing |-> tts[j]])

----------------------------------------------------------------------------
(* The store: views and queries *)

\* What a statement reads: the three tables
View(c, t, sc) == [courses |-> c, timetables |-> t, student_courses |-> sc]

Db == View(courses, timetables, student_courses)

RECURSIVE Perms(_)
Perms(S) ==
    IF S = {} THEN { <<>> }
    ELSE UNION { { <<x>> \o p : p \in Perms(S \ {x}) } : x \in S }

\* A timetable row as the driver returns it, joined with its course's code
JsRow(v, t) ==
    LET c == CHOOSE c \in v.courses : c.course_id = t.course_id
    IN  [timetable_id |-> t.timetable_id, course_id |-> t.course_id,
         day_of_week |-> t.day_of_week,
         start_time |-> FormatTime(t.start_time), end_time |-> FormatTime(t.end_time),
         course_code |-> c.course_code]

SelectStudent(studentId) == { s \in students : s.student_id = studentId }

SelectCourses(v, ids) == { c \in v.courses : c.course_id \in ids }

\* ... FROM timetables t JOIN courses c WHERE t.course_id IN (?) ORDER BY t.day_of_week, t.start_time
SelectTimetables(v, ids) ==
    LET rows == { t \in v.timetables : t.course_id \in ids
                                       /\ \E c \in v.courses : c.course_id = t.course_id }
    IN  { [k \in 1..Len(p) |-> JsRow(v, p[k])] : p \in
            { q \in Perms(rows) :
                \A a, b \in 1..Len(q) : a < b =>
                    \/ DayIndex(q[a].day_of_week) < DayIndex(q[b].day_of_week)
                    \/ /\ q[a].day_of_week = q[b].day_of_week
                       /\ q[a].start_time <= q[b].start_time } }

Copies(v, studentId, courseId) ==
    CopiesIn([student_id |-> studentId, course_id |-> courseId], v.student_courses)

\* ... FROM student_courses sc JOIN timetables t JOIN courses c WHERE sc.student_id = ? (no ORDER BY)
SelectExistingEnrollments(v, studentId) ==
    LET items == UNION { { <<t, k>> : k \in 1..Copies(v, studentId, t.course_id) } :
                         t \in { u \in v.timetables :
                                   \E c \in v.courses : c.course_id = u.course_id } }
    IN  { [k \in 1..Len(p) |-> JsRow(v, p[k][1])] : p \in Perms(items) }

\* SELECT c.course_code FROM student_courses sc JOIN courses c WHERE sc.student_id = ? AND sc.course_id IN (?)
SelectAlreadyEnrolled(v, studentId, ids) ==
    { c \in v.courses : c.course_id \in ids /\ Copies(v, studentId, c.course_id) > 0 }

\* The rows of a set of course rows in primary-key order, as a sequence of a field
ByCourseId(rows) ==
    [k \in 1..Cardinality(rows) |->
        CHOOSE r \in rows : Cardinality({ o \in rows : o.course_id < r.course_id }) = k - 1]

Codes(rowSeq) == [k \in 1..Len(rowSeq) |-> rowSeq[k].course_code]

----------------------------------------------------------------------------
(* The store: INSERT INTO student_courses, with its triggers and keys *)

CollegeMismatch(studentCollege, courseCollege) == studentCollege # courseCollege

\* check_student_course_college_before_insert: no row selected leaves NULL, and NULL != x is not true
TriggerCollegeSignals(v, new) ==
    \E s \in students : \E c \in v.courses :
        /\ s.student_id = new.student_id
        /\ c.course_id = new.course_id
        /\ CollegeMismatch(s.college_id, c.college_id)

SqlOverlap(t1, t2) == t1.start_time < t2.end_time /\ t1.end_time > t2.start_time

\* check_timetable_clash_before_insert: clash_count > 0
TriggerClashSignals(v, new) ==
    \E sc \in BagToSet(v.student_courses) : \E t1, t2 \in v.timetables :
        /\ sc.student_id = new.student_id
        /\ t1.course_id = sc.course_id
        /\ t2.course_id = new.course_id
        /\ SameDay(t1.day_of_week, t2.day_of_week)
        /\ SqlOverlap(t1, t2)

\* UNIQUE KEY unique_student_course (student_id, course_id)
UniqueKeyViolated(present, new) == BagIn(new, present)

\* The foreign keys of student_courses
ForeignKeysHold(v, new) ==
    /\ \E s \in students : s.student_id = new.student_id
    /\ \E c \in v.courses : c.course_id = new.course_id

\* One INSERT: v is what the triggers read, present the rows the unique index holds
InsertOutcome(v, present, new) ==
    IF TriggerCollegeSignals(v, new) THEN "Student and course must belong to the same college"
    ELSE IF TriggerClashSignals(v, new) THEN "Timetable clash detected with existing course enrollment"
    ELSE IF ~ForeignKeysHold(v, new) THEN "ER_NO_REFERENCED_ROW_2"
    ELSE IF UniqueKeyViolated(present, new) THEN "ER_DUP_ENTRY"
    ELSE "ok"

IsSignal(outcome) ==
    outcome \in { "Student and course must belong to the same college",
                  "Timetable clash detected with existing course enrollment" }

AddRow(bag, new) == bag (+) SetToBag({new})

DeleteRows(bag, row) == [r \in (DOMAIN bag) \ {row} |-> bag[r]]

----------------------------------------------------------------------------
(* EnrollmentService.saveStudentCourses *)

\* [...new Set(courseIds)]: first occurrences, in order
RECURSIVE Dedup(_)
Dedup(ids) ==
    IF ids = <<>> THEN <<>>
    ELSE LET rest == Dedup(SubSeq(ids, 1, Len(ids) - 1))
             x == ids[Len(ids)]
         IN  IF \E k \in 1..Len(rest) : rest[k] = x THEN rest ELSE Append(rest, x)

Range(f) == { f[k] : k \in DOMAIN f }

SelectSeq2(seq, keep) ==
    LET F[i \in 0..Len(seq)] ==
            IF i = 0 THEN <<>>
            ELSE IF seq[i] \in keep THEN Append(F[i - 1], seq[i]) ELSE F[i - 1]
    IN  F[Len(seq)]

\* The arguments of a call as JavaScript values: what typeof and Array.isArray tell of
\* the value, and its content as a sequence (a number is <<n>>, a string its characters)
JsNumber(n) == [type |-> "number", value |-> <<n>>]

JsString(chars) == [type |-> "string", value |-> chars]

JsArray(elements) == [type |-> "array", value |-> elements]

JsUndefined == [type |-> "undefined", value |-> <<>>]

\* !x
Falsy(x) ==
    \/ x.type = "undefined"
    \/ x.type = "number" /\ x.value = <<0>>
    \/ x.type = "string" /\ x.value = <<>>

\* Variant: only the student id is validated
EnrollInputErrorStudentOnly(studentId, courseIds) ==
    IF Falsy(studentId) \/ studentId.type # "number" THEN "Invalid student ID provided"
    ELSE ""

\* The input validation before a connection is taken
EnrollInputError(studentId, courseIds) ==
    IF Falsy(studentId) \/ studentId.type # "number" THEN "Invalid student ID provided"
    ELSE IF courseIds.type # "array" THEN "Course IDs must be provided as an array"
    ELSE IF Len(courseIds.value) = 0 THEN "Course list cannot be empty"
    ELSE ""

\* Checks 1-2 (student, courses, college): the failure, or success
EnrollLookupChecks(v, studentId, uniqueCourseIds) ==
    LET studentRows == SelectStudent(studentId)
        courseRows == SelectCourses(v, Range(uniqueCourseIds))
    IN  IF studentRows = {} THEN Fail("Student not found", <<>>)
        ELSE IF Cardinality(courseRows) # Len(uniqueCourseIds)
        THEN LET foundIds == { c.course_id : c \in courseRows }
             IN  Fail("Courses not found",
                      SelectSeq2(uniqueCourseIds, Range(uniqueCourseIds) \ foundIds))
        ELSE LET student == CHOOSE s \in studentRows : TRUE
                 invalidCourses == { c \in courseRows :
                                       CollegeMismatch(c.college_id, student.college_id) }
             IN  IF invalidCourses # {}
                 THEN Fail("Courses do not belong to student's college",
                           Codes(ByCourseId(invalidCourses)))
                 ELSE Success(<<>>)

\* Checks 3-4: clashes among the selected courses, then with the enrolled ones
EnrollClashChecks(timetableRows, existingEnrollments) ==
    LET clashResult == checkTimetableClashes(timetableRows)
    IN  IF ~clashResult.success THEN clashResult
        ELSE IF Len(existingEnrollments) > 0
        THEN checkTimetableClashes(existingEnrollments \o timetableRows)
        ELSE Success(<<>>)

\* Variant: the service does not look for enrollments that exist already
NeverAlreadyEnrolled(v, studentId, uniqueCourseIds) == Success(<<>>)

\* Check 5: already enrolled
EnrollDuplicateCheck(v, studentId, uniqueCourseIds) ==
    LET alreadyEnrolled == SelectAlreadyEnrolled(v, studentId, Range(uniqueCourseIds))
    IN  IF alreadyEnrolled # {}
        THEN Fail("Student is already enrolled in", Codes(ByCourseId(alreadyEnrolled)))
        ELSE Success(<<>>)

\* A variant of the guards that looks for duplicates before it looks for clashes
EnrollChecksDuplicateFirst(v, studentId, uniqueCourseIds, timetableRows, existingEnrollments) ==
    LET lookup == EnrollLookupChecks(v, studentId, uniqueCourseIds)
    IN  IF ~lookup.success THEN lookup
        ELSE LET duplicate == EnrollDuplicateCheck(v, studentId, uniqueCourseIds)
             IN  IF ~duplicate.success THEN duplicate
                 ELSE EnrollClashChecks(timetableRows, existingEnrollments)

\* All guards of saveStudentCourses in the code's order, on the rows its queries returned
EnrollChecks(v, studentId, uniqueCourseIds, timetableRows, existingEnrollments) ==
    LET lookup == EnrollLookupChecks(v, studentId, uniqueCourseIds)
    IN  IF ~lookup.success THEN lookup
        ELSE LET clash == EnrollClashChecks(timetableRows, existingEnrollments)
             IN  IF ~clash.success THEN clash
                 ELSE EnrollDuplicateCheck(v, studentId, uniqueCourseIds)

\* The catch block's result for a failed statement
EnrollCatch(outcome) ==
    IF IsSignal(outcome) THEN Fail(outcome, <<>>)
    ELSE Fail("An error occurred while processing enrollment", <<>>)

EnrollSuccess(v, studentId, uniqueCourseIds) ==
    Success(Codes(ByCourseId(SelectCourses(v, Range(uniqueCourseIds)))))

\* The queued INSERTs of one connection run one after the other; a failed one
\* rejects Promise.all but the ones queued behind it still run before the rollback
RECURSIVE RunInserts(_, _, _, _, _)
RunInserts(v, studentId, uniqueCourseIds, i, firstError) ==
    IF i > Len(uniqueCourseIds) THEN [student_courses |-> v.student_courses, error |-> firstError]
    ELSE LET new == [student_id |-> studentId, course_id |-> uniqueCourseIds[i]]
             outcome == InsertOutcome(v, v.student_courses, new)
         IN  IF outcome = "ok"
             THEN RunInserts(View(v.courses, v.timetables, AddRow(v.student_courses, new)),
                             studentId, uniqueCourseIds, i + 1, firstError)
             ELSE RunInserts(v, studentId, uniqueCourseIds, i + 1,
                             IF firstError = "" THEN outcome ELSE firstError)

\* What the transaction leaves: commit keeps its writes, rollback drops them
Commit(before, written) == written

Rollback(before, written) == before

Connections == {1, 2}

\* A connection of the pool with no handler on it
IdleConn ==
    [pc |-> "idle", op |-> "none", body |-> <<>>, args |-> <<>>, calls |-> <<>>,
     snap |-> View({}, {}, EmptyBag), i |-> 0,
     pending |-> EmptyBag, written |-> {}, error |-> "", inTx |-> FALSE,
     durable |-> EmptyBag, stored |-> {}, result |-> Success(<<>>)]

\* Every result saveStudentCourses can return on the store v, with the enrollments it
\* leaves stored: one for each order in which the queries without ORDER BY return rows
EnrollOutcomes(v, studentId, courseIds) ==
    LET inputError == EnrollInputError(JsNumber(studentId), JsArray(courseIds))
        uniqueCourseIds == Dedup(courseIds)
        ran == RunInserts(v, studentId, uniqueCourseIds, 1, "")
        Outcome(timetableRows, existingEnrollments) ==
            LET checks == EnrollChecks(v, studentId, uniqueCourseIds,
                                       timetableRows, existingEnrollments)
            IN  IF ~checks.success
                THEN [result |-> checks,
                      student_courses |-> Rollback(v.student_courses, v.student_courses)]
                ELSE IF ran.error # ""
                THEN [result |-> EnrollCatch(ran.error),
                      student_courses |-> Rollback(v.student_courses, ran.student_courses)]
                ELSE [result |-> EnrollSuccess(v, studentId, uniqueCourseIds),
                      student_courses |-> Commit(v.student_courses, ran.student_courses)]
    IN  IF inputError # ""
        THEN { [result |-> Fail(inputError, <<>>), student_courses |-> v.student_courses] }
        ELSE { Outcome(timetableRows, existingEnrollments) :
                 timetableRows \in SelectTimetables(v, Range(uniqueCourseIds)),
                 existingEnrollments \in SelectExistingEnrollments(v, studentId) }

saveStudentCourses(studentId, courseIds) ==
    /\ UNCHANGED <<courses, timetables, nextCourseId, nextTimetableId, conn>>
    /\ \E outcome \in EnrollOutcomes(Db, studentId, courseIds) :
          /\ last' = [call |-> [op |-> "saveStudentCourses", args |-> <<studentId, courseIds>>],
                      result |-> outcome.result]
          /\ student_courses' = outcome.student_courses

----------------------------------------------------------------------------
(* EnrollmentService.dropCourse *)

dropCourse(studentId, courseId) ==
    LET row == [student_id |-> studentId, course_id |-> courseId]
        affectedRows == CopiesIn(row, student_courses)
        call == [op |-> "dropCourse", args |-> <<studentId, courseId>>]
    IN  /\ UNCHANGED <<courses, timetables, nextCourseId, nextTimetableId, conn>>
        /\ student_courses' = DeleteRows(student_courses, row)
        /\ last' = [call |-> call,
                    result |-> IF affectedRows = 0 THEN Fail("Enrollment not found", <<>>)
                               ELSE Success(<<>>)]

----------------------------------------------------------------------------
(* AdminService: timetable slots and courses *)

\* SELECT DISTINCT sc.student_id, s.name FROM student_courses sc JOIN students s WHERE sc.course_id = ?
SelectEnrolledStudents(v, courseId) ==
    { s \in students : Copies(v, s.student_id, courseId) > 0 }

ConflictRow(v, s, t) ==
    LET c == CHOOSE c \in v.courses : c.course_id = t.course_id
    IN  [student_id |-> s.student_id, name |-> s.name, course_code |-> c.course_code,
         day_of_week |-> t.day_of_week,
         start_time |-> FormatTime(t.start_time), end_time |-> FormatTime(t.end_time)]

\* The slots of the courses of the students enrolled in courseId that overlap the
\* candidate on its day; the string parameters are compared as TIME values
OverlappingSlots(v, courseId, dayOfWeek, startTime, endTime) ==
    { st \in students \X v.timetables :
        /\ Copies(v, st[1].student_id, courseId) > 0
        /\ Copies(v, st[1].student_id, st[2].course_id) > 0
        /\ \E c \in v.courses : c.course_id = st[2].course_id
        /\ SameDay(st[2].day_of_week, dayOfWeek)
        /\ st[2].start_time < ParseTime(endTime)
        /\ st[2].end_time > ParseTime(startTime) }

\* A conflict query that leaves no slot out
SelectConflictsAnyCourse(v, courseId, dayOfWeek, startTime, endTime) ==
    { ConflictRow(v, st[1], st[2]) :
        st \in OverlappingSlots(v, courseId, dayOfWeek, startTime, endTime) }

\* addTimetable's conflict query: ... AND sc2.course_id != ?
SelectAddConflicts(v, courseId, dayOfWeek, startTime, endTime) ==
    { ConflictRow(v, st[1], st[2]) :
        st \in { x \in OverlappingSlots(v, courseId, dayOfWeek, startTime, endTime) :
                   x[2].course_id # courseId } }

\* updateTimetable's conflict query: ... AND t.timetable_id != ?
SelectUpdateConflicts(v, courseId, dayOfWeek, startTime, endTime, timetableId) ==
    { ConflictRow(v, st[1], st[2]) :
        st \in { x \in OverlappingSlots(v, courseId, dayOfWeek, startTime, endTime) :
                   x[2].timetable_id # timetableId } }

\* CHECK (end_time > start_time) and the day_of_week ENUM of table timetables
TimetableRowAccepted(row) == row.end_time > row.start_time /\ IsValidDay(row.day_of_week)

AddTimetableInputError(dayOfWeek, startTime, endTime) ==
    IF ~IsValidDay(dayOfWeek) THEN "Invalid day of week"
    ELSE IF ~StrLess(startTime, endTime) THEN "Start time must be before end time"
    ELSE ""

\* The guards of addTimetable inside its transaction
AddTimetableChecks(v, courseId, dayOfWeek, startTime, endTime) ==
    IF SelectCourses(v, {courseId}) = {} THEN Fail("Course not found", <<>>)
    ELSE IF SelectEnrolledStudents(v, courseId) # {}
            /\ SelectAddConflicts(v, courseId, dayOfWeek, startTime, endTime) # {}
    THEN Fail("Cannot add timetable: Would create conflicts",
              [conflicts |-> SelectAddConflicts(v, courseId, dayOfWeek, startTime, endTime)])
    ELSE Success(<<>>)

NewTimetableRow(id, courseId, dayOfWeek, startTime, endTime) ==
    [timetable_id |-> id, course_id |-> courseId, day_of_week |-> dayOfWeek,
     start_time |-> ParseTime(startTime), end_time |-> ParseTime(endTime)]

addTimetable(courseId, dayOfWeek, startTime, endTime) ==
    LET inputError == AddTimetableInputError(dayOfWeek, startTime, endTime)
        call == [op |-> "addTimetable", args |-> <<courseId, dayOfWeek, startTime, endTime>>]
        checks == AddTimetableChecks(Db, courseId, dayOfWeek, startTime, endTime)
        row == NewTimetableRow(nextTimetableId, courseId, dayOfWeek, startTime, endTime)
    IN  /\ UNCHANGED <<courses, student_courses, nextCourseId, conn>>
        /\ IF inputError # ""
           THEN /\ last' = [call |-> call, result |-> Fail(inputError, <<>>)]
                /\ UNCHANGED <<timetables, nextTimetableId>>
           ELSE IF ~checks.success
           THEN /\ last' = [call |-> call, result |-> checks]
                /\ timetables' = Rollback(timetables, timetables)
                /\ UNCHANGED nextTimetableId
           ELSE IF ~TimetableRowAccepted(row)
           THEN /\ last' = [call |-> call, result |-> Fail("Failed to add timetable", <<>>)]
                /\ timetables' = Rollback(timetables, timetables)
                /\ UNCHANGED nextTimetableId
           ELSE /\ nextTimetableId <= MaxTimetableId
                /\ last' = [call |-> call, result |-> Success([timetableId |-> row.timetable_id])]
                /\ timetables' = Commit(timetables, timetables \cup {row})
                /\ nextTimetableId' = nextTimetableId + 1

\* Variant: an update that keeps every stored field
KeepStored(given, empty, stored) == stored

\* const newX = x || existingTimetable.x : an absent or empty field keeps the stored value
\* (the empty string is "" for a day and <<>> for a time string)
OrElse(given, empty, stored) == IF given = empty THEN stored ELSE given

UpdateTimetableChecks(v, timetableId, dayOfWeek, startTime, endTime) ==
    LET timetableRows == { t \in v.timetables : t.timetable_id = timetableId }
    IN  IF timetableRows = {} THEN Fail("Timetable not found", <<>>)
        ELSE LET existingTimetable == CHOOSE t \in timetableRows : TRUE
                 newDayOfWeek == OrElse(dayOfWeek, "", existingTimetable.day_of_week)
                 newStartTime == OrElse(startTime, <<>>, FormatTime(existingTimetable.start_time))
                 newEndTime == OrElse(endTime, <<>>, FormatTime(existingTimetable.end_time))
                 conflicts == SelectUpdateConflicts(v, existingTimetable.course_id, newDayOfWeek,
                                                    newStartTime, newEndTime, timetableId)
             IN  IF ~StrLess(newStartTime, newEndTime)
                 THEN Fail("Start time must be before end time", <<>>)
                 ELSE IF conflicts # {}
                 THEN Fail("Cannot update timetable: Would create conflicts",
                           [conflicts |-> conflicts])
                 ELSE Success(NewTimetableRow(timetableId, existingTimetable.course_id,
                                              newDayOfWeek, newStartTime, newEndTime))

\* UPDATE timetables SET ... WHERE timetable_id = ?
UpdateRows(rows, new) ==
    { IF t.timetable_id = new.timetable_id
      THEN [t EXCEPT !.day_of_week = new.day_of_week, !.start_time = new.start_time,
                     !.end_time = new.end_time]
      ELSE t : t \in rows }

updateTimetable(timetableId, dayOfWeek, startTime, endTime) ==
    LET call == [op |-> "updateTimetable", args |-> <<timetableId, dayOfWeek, startTime, endTime>>]
        checks == UpdateTimetableChecks(Db, timetableId, dayOfWeek, startTime, endTime)
    IN  /\ UNCHANGED <<courses, student_courses, nextCourseId, nextTimetableId, conn>>
        /\ IF dayOfWeek # "" /\ ~IsValidDay(dayOfWeek)
           THEN /\ last' = [call |-> call, result |-> Fail("Invalid day of week", <<>>)]
                /\ UNCHANGED timetables
           ELSE IF ~checks.success
           THEN /\ last' = [call |-> call, result |-> checks]
                /\ timetables' = Rollback(timetables, timetables)
           ELSE IF ~TimetableRowAccepted(checks.detail)
           THEN /\ last' = [call |-> call, result |-> Fail("Failed to update timetable", <<>>)]
                /\ timetables' = Rollback(timetables, timetables)
           ELSE /\ last' = [call |-> call, result |-> checks]
                /\ timetables' = Commit(timetables, UpdateRows(timetables, checks.detail))

\* Variant: a deletion that is refused while a student is enrolled in the slot's course
deleteTimetableChecked(timetableId) ==
    LET affectedRows == { t \in timetables : t.timetable_id = timetableId }
        call == [op |-> "deleteTimetable", args |-> <<timetableId>>]
        held == { t \in affectedRows : SelectEnrolledStudents(Db, t.course_id) # {} }
    IN  /\ UNCHANGED <<courses, student_courses, nextCourseId, nextTimetableId, conn>>
        /\ timetables' = IF held # {} THEN timetables ELSE timetables \ affectedRows
        /\ last' = [call |-> call,
                    result |-> IF affectedRows = {} THEN Fail("Timetable not found", <<>>)
                               ELSE IF held # {} THEN Fail("Cannot delete timetable", <<>>)
                               ELSE Success(<<>>)]

deleteTimetable(timetableId) ==
    LET affectedRows == { t \in timetables : t.timetable_id = timetableId }
        call == [op |-> "deleteTimetable", args |-> <<timetableId>>]
    IN  /\ UNCHANGED <<courses, student_courses, nextCourseId, nextTimetableId, conn>>
        /\ timetables' = timetables \ affectedRows
        /\ last' = [call |-> call,
                    result |-> IF affectedRows = {} THEN Fail("Timetable not found", <<>>)
                               ELSE Success(<<>>)]

addCourse(courseCode, collegeId) ==
    LET call == [op |-> "addCourse", args |-> <<courseCode, collegeId>>]
        row == [course_id |-> nextCourseId, course_code |-> courseCode, college_id |-> collegeId]
    IN  /\ UNCHANGED <<timetables, student_courses, nextTimetableId, conn>>
        /\ IF \E c \in courses : c.course_code = courseCode /\ c.college_id = collegeId
           THEN /\ last' = [call |-> call,
                            result |-> Fail("Course code already exists for this college", <<>>)]
                /\ UNCHANGED <<courses, nextCourseId>>
           ELSE IF collegeId \notin colleges
           THEN /\ last' = [call |-> call, result |-> Fail("Failed to add course", <<>>)]
                /\ UNCHANGED <<courses, nextCourseId>>
           ELSE /\ nextCourseId <= MaxCourseId
                /\ last' = [call |-> call, result |-> Success([courseId |-> row.course_id])]
                /\ courses' = courses \cup {row}
                /\ nextCourseId' = nextCourseId + 1

----------------------------------------------------------------------------
(* The requests the model sends *)

T0900 == FormatTime(540)

T0930 == FormatTime(570)

T1000 == FormatTime(600)

T1030 == FormatTime(630)

\* '9:30:00': a time the client did not zero-pad
U0930 == <<9, 10, 3, 0, 10, 0, 0>>

\* <<startTime, endTime>> of an addTimetable request
IntervalInputs ==
    { <<T0900, T1000>>, <<T0930, T1000>>,
      <<T1000, T1000>>, <<U0930, T1000>>, <<T1000, U0930>> }

\* The updates of an updateTimetable request; "" and <<>> are fields left out
UpdateInputs ==
    { [dayOfWeek |-> "Tuesday", startTime |-> <<>>, endTime |-> <<>>],
      [dayOfWeek |-> "Funday", startTime |-> <<>>, endTime |-> <<>>],
      [dayOfWeek |-> "", startTime |-> T0930, endTime |-> <<>>],
      [dayOfWeek |-> "", startTime |-> <<>>, endTime |-> T0930],
      [dayOfWeek |-> "Monday", startTime |-> T0900, endTime |-> T1000] }

----------------------------------------------------------------------------
(* The database after setup, and the serial specification *)

NoCall == [call |-> [op |-> "none", args |-> <<>>], result |-> Success(<<>>)]

SampleCourses ==
    { [course_id |-> 1, course_code |-> "CS101", college_id |-> 1],
      [course_id |-> 2, course_code |-> "MA204", college_id |-> 1],
      [course_id |-> 3, course_code |-> "CS102", college_id |-> 2] }

Init ==
    /\ courses = SampleCourses
    /\ timetables = { [timetable_id |-> 1, course_id |-> 1, day_of_week |-> "Monday",
                       start_time |-> 540, end_time |-> 600] }
    /\ student_courses = EmptyBag
    /\ nextCourseId = 4
    /\ nextTimetableId = 2
    /\ last = NoCall
    /\ conn = [p \in Connections |-> IdleConn]

\* The route sends the handler's result; the next request is served after it
Respond ==
    /\ last.call.op # "none"
    /\ last' = NoCall
    /\ UNCHANGED <<courses, timetables, student_courses, nextCourseId, nextTimetableId, conn>>

Enroll ==
    /\ last.call.op = "none"
    /\ \E studentId \in {1} :
       \E courseIds \in { <<1>>, <<2>>, <<1, 2>>, <<3>>, <<4>> } :
          saveStudentCourses(studentId, courseIds)

Drop ==
    /\ last.call.op = "none"
    /\ \E studentId \in {1} : \E courseId \in {1, 2} :
          dropCourse(studentId, courseId)

AddSlot ==
    /\ last.call.op = "none"
    /\ \E courseId \in 1..MaxCourseId : \E dayOfWeek \in {"Monday", "Funday"} :
       \E i \in IntervalInputs :
          addTimetable(courseId, dayOfWeek, i[1], i[2])

UpdateSlot ==
    /\ last.call.op = "none"
    /\ \E timetableId \in 1..MaxTimetableId : \E u \in UpdateInputs :
          updateTimetable(timetableId, u.dayOfWeek, u.startTime, u.endTime)

DeleteSlot ==
    /\ last.call.op = "none"
    /\ \E timetableId \in 1..MaxTimetableId : deleteTimetable(timetableId)

AddCourse ==
    /\ last.call.op = "none"
    /\ \E courseCode \in {"CS102", "CS301"} : \E collegeId \in {2, 3} :
          addCourse(courseCode, collegeId)

Next ==
    \/ Enroll
    \/ Drop
    \/ AddSlot
    \/ UpdateSlot
    \/ DeleteSlot
    \/ AddCourse
    \/ Respond

Spec == Init /\ [][Next]_vars

----------------------------------------------------------------------------
(* The enrollment service alone, over every small timetable *)

\* The longest course list of a request, and the most slots the timetable starts with
MaxListLen == 2
MaxSlots == 2

\* Slots an admin can have added while nobody was enrolled: Monday 09:00-10:00 and
\* Wednesday 09:00-10:00, 09:30-10:30, 10:00-10:30 of each sample course
SlotChoices ==
    { [course_id |-> c, day_of_week |-> d[1], start_time |-> d[2], end_time |-> d[3]] :
        c \in {1, 2, 3},
        d \in { <<"Monday", 540, 600>>, <<"Wednesday", 540, 600>>,
                <<"Wednesday", 570, 630>>, <<"Wednesday", 600, 630>> } }

\* AUTO_INCREMENT ids for a set of added slots
RECURSIVE NumberSlots(_, _)
NumberSlots(slots, id) ==
    IF slots = {} THEN {}
    ELSE LET s == CHOOSE s \in slots : TRUE
         IN  { NewTimetableRow(id, s.course_id, s.day_of_week,
                               FormatTime(s.start_time), FormatTime(s.end_time)) }
             \cup NumberSlots(slots \ {s}, id + 1)

RECURSIVE SlotSets(_)
SlotSets(n) ==
    IF n = 0 THEN { {} }
    ELSE LET smaller == SlotSets(n - 1)
         IN  smaller \cup { S \cup {s} : S \in smaller, s \in SlotChoices }

RECURSIVE Lists(_, _)
Lists(ids, n) ==
    IF n = 0 THEN { <<>> }
    ELSE LET shorter == Lists(ids, n - 1)
         IN  shorter \cup { Append(l, x) : l \in shorter, x \in ids }

InitEnroll ==
    /\ courses = SampleCourses
    /\ \E slots \in SlotSets(MaxSlots) :
          /\ timetables = NumberSlots(slots, 1)
          /\ nextTimetableId = Cardinality(slots) + 1
    /\ student_courses = EmptyBag
    /\ nextCourseId = 4
    /\ last = NoCall
    /\ conn = [p \in Connections |-> IdleConn]

\* Any request body: student 0 is a missing id, 9 an unknown student, 4 and 5 unknown courses
EnrollAny ==
    /\ last.call.op = "none"
    /\ \E studentId \in {0, 1, 9} :
       \E courseIds \in Lists({1, 2, 3, 4, 5}, MaxListLen) :
          saveStudentCourses(studentId, courseIds)

DropAny ==
    /\ last.call.op = "none"
    /\ \E studentId \in {1, 9} : \E courseId \in {1, 2} :
          dropCourse(studentId, courseId)

NextEnroll ==
    \/ Respond
    \/ EnrollAny
    \/ DropAny

SpecEnroll == InitEnroll /\ [][NextEnroll]_vars

----------------------------------------------------------------------------
(* The timetable mutations of the admin service, over every small timetable and *)
(* every enrollment of the two students in the two courses of their college     *)

\* The slots of one student's enrolled courses in a candidate state
SlotsOfStudent(slots, enrolled, studentId) ==
    { t \in slots : [student_id |-> studentId, course_id |-> t.course_id] \in enrolled }

\* States the serial handlers reach: added slots, then enrollments in which no two
\* different courses of a student overlap (saveStudentCourses refuses those; a course
\* can get overlapping slots of its own after the enrollment)
AdminStates ==
    { st \in { S \in SlotSets(MaxSlots) : \A t \in S : t.course_id # 3 }
             \X SUBSET ([student_id : {1, 2}, course_id : {1, 2}]) :
        \A s \in {1, 2} : \A t1, t2 \in SlotsOfStudent(st[1], st[2], s) :
            (t1.course_id # t2.course_id /\ t1.day_of_week = t2.day_of_week)
            => ~(t1.start_time < t2.end_time /\ t2.start_time < t1.end_time) }

InitAdmin ==
    /\ courses = SampleCourses
    /\ \E st \in AdminStates :
          /\ timetables = NumberSlots(st[1], 1)
          /\ nextTimetableId = Cardinality(st[1]) + 1
          /\ student_courses = SetToBag(st[2])
    /\ nextCourseId = 4
    /\ last = NoCall
    /\ conn = [p \in Connections |-> IdleConn]

\* POST /timetable: course 4 does not exist, Funday is no weekday, '9:30:00' is not padded
AddSlotAny ==
    /\ last.call.op = "none"
    /\ \E courseId \in {1, 2, 4} : \E dayOfWeek \in {"Wednesday", "Funday"} :
       \E interval \in IntervalInputs \cup { <<T0930, T1030>> } :
          addTimetable(courseId, dayOfWeek, interval[1], interval[2])

\* Bodies of PUT /timetable/:id: a part of the slot or all of it, no weekday,
\* and intervals that end before they start
UpdateBodies ==
    { [dayOfWeek |-> "Wednesday", startTime |-> <<>>, endTime |-> <<>>],
      [dayOfWeek |-> "", startTime |-> T0930, endTime |-> <<>>],
      [dayOfWeek |-> "", startTime |-> <<>>, endTime |-> T1000],
      [dayOfWeek |-> "Wednesday", startTime |-> T0930, endTime |-> T1000],
      [dayOfWeek |-> "Funday", startTime |-> <<>>, endTime |-> <<>>],
      [dayOfWeek |-> "", startTime |-> T1030, endTime |-> T1000],
      [dayOfWeek |-> "", startTime |-> T1030, endTime |-> <<>>] }

\* PUT /timetable/:id: timetable 9 does not exist
UpdateSlotAny ==
    /\ last.call.op = "none"
    /\ \E timetableId \in {1, 2, 9} : \E u \in UpdateBodies :
          updateTimetable(timetableId, u.dayOfWeek, u.startTime, u.endTime)

NextAdmin ==
    \/ Respond
    \/ AddSlotAny
    \/ UpdateSlotAny

SpecAdmin == InitAdmin /\ [][NextAdmin]_vars

----------------------------------------------------------------------------
(* The conflict checker alone, on every short sequence of well-formed slots *)

\* The longest slot sequence handed to the checker
MaxSeqLen == 3

\* Times of day in minutes: 09:00, 09:30, 10:00, 10:30
CheckerTimes == {540, 570, 600, 630}

\* Well-formed intervals: start before end
CheckerIntervals == { i \in CheckerTimes \X CheckerTimes : i[1] < i[2] }

\* Slots as stored: a weekday, an interval out of three, the code of the course
CheckerSlots ==
    { [day_of_week |-> d, start_time |-> i[1], end_time |-> i[2], course_code |-> c] :
        d \in {"Monday", "Wednesday"},
        i \in { <<540, 600>>, <<570, 630>>, <<600, 630>> },
        c \in {"CS101", "MA204"} }

\* A stored slot as the driver hands it to the checker
JsSlot(t) ==
    [day_of_week |-> t.day_of_week, start_time |-> FormatTime(t.start_time),
     end_time |-> FormatTime(t.end_time), course_code |-> t.course_code]

InitChecker ==
    /\ courses = SampleCourses
    /\ timetables = {}
    /\ student_courses = EmptyBag
    /\ nextCourseId = 4
    /\ nextTimetableId = 1
    /\ last = NoCall
    /\ conn = [p \in Connections |-> IdleConn]

\* this.checkTimetableClashes(rows) on the rows of a query
CheckClashes ==
    /\ last.call.op = "none"
    /\ \E slots \in Lists(CheckerSlots, MaxSeqLen) :
          last' = [call |-> [op |-> "checkTimetableClashes", args |-> slots],
                   result |-> checkTimetableClashes([k \in 1..Len(slots) |-> JsSlot(slots[k])])]
    /\ UNCHANGED <<dbVars, conn>>

\* this.timeSlotsOverlap on two intervals in both orders, and on the first with itself
OverlapCalls ==
    /\ last.call.op = "none"
    /\ \E a, b \in CheckerIntervals :
          LET a1 == FormatTime(a[1])
              a2 == FormatTime(a[2])
              b1 == FormatTime(b[1])
              b2 == FormatTime(b[2])
          IN  last' = [call |-> [op |-> "timeSlotsOverlap", args |-> <<a, b>>],
                       result |-> Success(<< timeSlotsOverlap(a1, a2, b1, b2),
                                             timeSlotsOverlap(b1, b2, a1, a2),
                                             timeSlotsOverlap(a1, a2, a1, a2) >>)]
    /\ UNCHANGED <<dbVars, conn>>

NextChecker ==
    \/ Respond
    \/ CheckClashes
    \/ OverlapCalls

SpecChecker == InitChecker /\ [][NextChecker]_vars

----------------------------------------------------------------------------
(* Concurrent connections: one handler per connection, one statement per step *)

\* MIT's four sample courses; student 1 is enrolled in CS101
ConcCourses ==
    { [course_id |-> 1, course_code |-> "CS101", college_id |-> 1],
      [course_id |-> 2, course_code |-> "MA204", college_id |-> 1],
      [course_id |-> 3, course_code |-> "AP105", college_id |-> 1],
      [course_id |-> 4, course_code |-> "CS201", college_id |-> 1] }

ConcTimetables ==
    { [timetable_id |-> 1, course_id |-> 1, day_of_week |-> "Monday",
       start_time |-> 540, end_time |-> 600],
      [timetable_id |-> 2, course_id |-> 2, day_of_week |-> "Monday",
       start_time |-> 570, end_time |-> 630],
      [timetable_id |-> 3, course_id |-> 3, day_of_week |-> "Tuesday",
       start_time |-> 570, end_time |-> 630] }

ConcRequests ==
    { [op |-> "saveStudentCourses", args |-> <<2, <<1>>>>],
      [op |-> "saveStudentCourses", args |-> <<2, <<2>>>>],
      [op |-> "saveStudentCourses", args |-> <<1, <<3>>>>],
      [op |-> "saveStudentCourses", args |-> <<1, <<4>>>>],
      [op |-> "saveStudentCourses", args |-> <<2, <<3, 4>>>>],
      [op |-> "saveStudentCourses", args |-> <<2, <<4, 3, 1>>>>],
      [op |-> "addTimetable", args |-> <<4, "Monday", T0930, T1030>>],
      [op |-> "addTimetable", args |-> <<4, "Monday", T1000, U0930>>],
      [op |-> "updateTimetable", args |-> <<3, "Monday", <<>>, <<>>>>] }

InitConc ==
    /\ courses = ConcCourses
    /\ timetables = ConcTimetables
    /\ student_courses = SetToBag({ [student_id |-> 1, course_id |-> 1] })
    /\ nextCourseId = 5
    /\ nextTimetableId = 4
    /\ last = NoCall
    /\ conn = [p \in Connections |-> IdleConn]

\* The handler's return: the connection is released with its result
Return(c, result) == [c EXCEPT !.pc = "done", !.result = result]

\* db.getConnection() and connection.beginTransaction(): calls is the record of what the
\* handler has called on its connection
Begin(c) == [c EXCEPT !.calls = <<"beginTransaction">>]

\* Variant: a return path that releases the connection with the transaction left open
EndByRelease(c, how, result) == Return([c EXCEPT !.calls = @ \o <<"release">>], result)

\* connection.commit() or connection.rollback(), then connection.release() in finally,
\* and the handler's return
End(c, how, result) == Return([c EXCEPT !.calls = @ \o <<how, "release">>], result)

\* The rows other open transactions have written and not committed
OthersPending(p) == { q \in Connections \ {p} : conn[q].inTx }

\* The student_courses row connection p's next queued INSERT writes
NextInsert(p) ==
    [student_id |-> conn[p].args[1], course_id |-> Dedup(conn[p].args[2])[conn[p].i]]

\* p's INSERT waits for q: q holds the same key in a row it has not committed
WaitsFor(p, q) ==
    /\ conn[p].pc = "insert"
    /\ q \in OthersPending(p)
    /\ BagIn(NextInsert(p), conn[q].pending)

\* What a statement of p reads: the snapshot of its transaction with its own writes,
\* or the committed rows once the server has ended the transaction
ReadView(p) ==
    IF conn[p].inTx
    THEN View(conn[p].snap.courses, conn[p].snap.timetables,
              conn[p].snap.student_courses (+) conn[p].pending)
    ELSE Db

Start(p) ==
    /\ conn[p].pc = "idle"
    /\ \E r \in ConcRequests :
          LET inputError ==
                  IF r.op = "saveStudentCourses"
                  THEN EnrollInputError(JsNumber(r.args[1]), JsArray(r.args[2]))
                  ELSE IF r.op = "addTimetable"
                  THEN AddTimetableInputError(r.args[2], r.args[3], r.args[4])
                  ELSE IF r.args[2] # "" /\ ~IsValidDay(r.args[2]) THEN "Invalid day of week"
                  ELSE ""
              c == [conn[p] EXCEPT !.op = r.op, !.args = r.args]
          IN  conn' = [conn EXCEPT ![p] =
                          IF inputError # "" THEN Return(c, Fail(inputError, <<>>))
                          ELSE [c EXCEPT !.pc = "check"]]
    /\ UNCHANGED <<dbVars, last>>

\* beginTransaction and the queries of the guards: one consistent snapshot
EnrollCheck(p) ==
    /\ conn[p].pc = "check"
    /\ conn[p].op = "saveStudentCourses"
    /\ \E studentId \in { conn[p].args[1] } :
       \E uniqueCourseIds \in { Dedup(conn[p].args[2]) } : \E v \in { Db } :
       \E timetableRows \in SelectTimetables(v, Range(uniqueCourseIds)) :
       \E existingEnrollments \in SelectExistingEnrollments(v, studentId) :
       \E checks \in { EnrollChecks(v, studentId, uniqueCourseIds,
                                    timetableRows, existingEnrollments) } :
          conn' = [conn EXCEPT ![p] =
                      IF ~checks.success THEN End(Begin(@), "rollback", checks)
                      ELSE [Begin(@) EXCEPT !.pc = "insert", !.snap = v, !.inTx = TRUE,
                                            !.i = 1]]
    /\ UNCHANGED <<dbVars, last>>

AfterInsert(c, outcome) ==
    LET n == Len(Dedup(c.args[2]))
        error == IF c.error = "" /\ outcome # "ok" THEN outcome ELSE c.error
    IN  [c EXCEPT !.i = c.i + 1, !.error = error,
                  !.pc = IF c.i < n THEN "insert"
                         ELSE IF error = "" THEN "commit" ELSE "rollback"]

\* One queued INSERT INTO student_courses
EnrollInsert(p) ==
    /\ conn[p].pc = "insert"
    /\ \A q \in Connections : ~WaitsFor(p, q)
    /\ \E new \in { NextInsert(p) } : \E view \in { ReadView(p) } :
       \E outcome \in { InsertOutcome(view, student_courses (+) conn[p].pending, new) } :
           IF outcome # "ok"
           THEN /\ conn' = [conn EXCEPT ![p] = AfterInsert(@, outcome)]
                /\ UNCHANGED student_courses
           ELSE IF conn[p].inTx
           THEN /\ conn' = [conn EXCEPT ![p] =
                               AfterInsert([@ EXCEPT !.pending = AddRow(@, new)], outcome)]
                /\ UNCHANGED student_courses
           ELSE \* the server ended the transaction: the statement commits on its own
                /\ conn' = [conn EXCEPT ![p] =
                               AfterInsert([@ EXCEPT !.durable = AddRow(@, new)], outcome)]
                /\ student_courses' = AddRow(student_courses, new)
    /\ UNCHANGED <<courses, timetables, nextCourseId, nextTimetableId, last>>

\* Variant: a server that detects no deadlock
DeadlockUndetected(p) == FALSE /\ UNCHANGED vars

\* Two INSERTs wait for each other: the server rolls one transaction back whole
\* and fails its statement; the statements queued behind it still run
EnrollDeadlock(p) ==
    /\ \E q \in Connections : WaitsFor(p, q) /\ WaitsFor(q, p)
    /\ conn' = [conn EXCEPT ![p] =
                   AfterInsert([@ EXCEPT !.pending = EmptyBag, !.inTx = FALSE],
                               "ER_LOCK_DEADLOCK")]
    /\ UNCHANGED <<dbVars, last>>

EnrollCommit(p) ==
    /\ conn[p].pc = "commit"
    /\ conn[p].op = "saveStudentCourses"
    /\ student_courses' = Commit(student_courses, student_courses (+) conn[p].pending)
    /\ \E uniqueCourseIds \in { Dedup(conn[p].args[2]) } :
       \E result \in { EnrollSuccess(conn[p].snap, conn[p].args[1], uniqueCourseIds) } :
          conn' = [conn EXCEPT ![p] =
                      End([@ EXCEPT !.durable = @ (+) conn[p].pending,
                                    !.pending = EmptyBag, !.inTx = FALSE],
                          "commit", result)]
    /\ UNCHANGED <<courses, timetables, nextCourseId, nextTimetableId, last>>

EnrollRollback(p) ==
    /\ conn[p].pc = "rollback"
    /\ conn[p].op = "saveStudentCourses"
    /\ student_courses' = Rollback(student_courses, student_courses (+) conn[p].pending)
    /\ conn' = [conn EXCEPT ![p] =
                   End([@ EXCEPT !.pending = EmptyBag, !.inTx = FALSE],
                       "rollback", EnrollCatch(conn[p].error))]
    /\ UNCHANGED <<courses, timetables, nextCourseId, nextTimetableId, last>>

\* The guards of addTimetable or updateTimetable, on the transaction's snapshot
TimetableCheck(p) ==
    /\ conn[p].pc = "check"
    /\ conn[p].op \in {"addTimetable", "updateTimetable"}
    /\ LET a == conn[p].args
           checks == IF conn[p].op = "addTimetable"
                     THEN AddTimetableChecks(Db, a[1], a[2], a[3], a[4])
                     ELSE UpdateTimetableChecks(Db, a[1], a[2], a[3], a[4])
       IN  conn' = [conn EXCEPT ![p] =
                       IF ~checks.success THEN End(Begin(@), "rollback", checks)
                       ELSE [Begin(@) EXCEPT !.pc = "write", !.snap = Db, !.inTx = TRUE,
                                      !.result = checks]]
    /\ UNCHANGED <<dbVars, last>>

\* INSERT INTO timetables / UPDATE timetables: the row is locked until the transaction ends
TimetableWrite(p) ==
    /\ conn[p].pc = "write"
    /\ LET a == conn[p].args
           row == IF conn[p].op = "addTimetable"
                  THEN NewTimetableRow(nextTimetableId, a[1], a[2], a[3], a[4])
                  ELSE conn[p].result.detail
       IN  /\ \A q \in OthersPending(p) :
                 \A w \in conn[q].written : w.timetable_id # row.timetable_id
           /\ IF ~TimetableRowAccepted(row)
              THEN /\ conn' = [conn EXCEPT ![p] =
                                  [@ EXCEPT !.pc = "rollback", !.error = "ER_CHECK_CONSTRAINT_VIOLATED"]]
                   /\ UNCHANGED nextTimetableId
              ELSE /\ conn' = [conn EXCEPT ![p] = [@ EXCEPT !.pc = "commit", !.written = {row}]]
                   /\ nextTimetableId' = IF conn[p].op = "addTimetable"
                                         THEN nextTimetableId + 1 ELSE nextTimetableId
    /\ UNCHANGED <<courses, timetables, student_courses, nextCourseId, last>>

TimetableCommit(p) ==
    /\ conn[p].pc = "commit"
    /\ conn[p].op \in {"addTimetable", "updateTimetable"}
    /\ LET row == CHOOSE w \in conn[p].written : TRUE
       IN  /\ timetables' = Commit(timetables,
                                   IF conn[p].op = "addTimetable" THEN timetables \cup {row}
                                   ELSE UpdateRows(timetables, row))
           /\ conn' = [conn EXCEPT ![p] =
                          End([@ EXCEPT !.written = {}, !.stored = {row}, !.inTx = FALSE],
                              "commit",
                              IF conn[p].op = "addTimetable"
                              THEN Success([timetableId |-> row.timetable_id])
                              ELSE conn[p].result)]
    /\ UNCHANGED <<courses, student_courses, nextCourseId, nextTimetableId, last>>

TimetableRollback(p) ==
    /\ conn[p].pc = "rollback"
    /\ conn[p].op \in {"addTimetable", "updateTimetable"}
    /\ timetables' = Rollback(timetables, timetables \cup conn[p].written)
    /\ conn' = [conn EXCEPT ![p] =
                   End([@ EXCEPT !.written = {}, !.inTx = FALSE], "rollback",
                       IF conn[p].op = "addTimetable" THEN Fail("Failed to add timetable", <<>>)
                       ELSE Fail("Failed to update timetable", <<>>))]
    /\ UNCHANGED <<courses, student_courses, nextCourseId, nextTimetableId, last>>

NextConc ==
    \E p \in Connections :
        \/ Start(p)
        \/ EnrollCheck(p)
        \/ EnrollInsert(p)
        \/ EnrollDeadlock(p)
        \/ EnrollCommit(p)
        \/ EnrollRollback(p)
        \/ TimetableCheck(p)
        \/ TimetableWrite(p)
        \/ TimetableCommit(p)
        \/ TimetableRollback(p)

SpecConc == InitConc /\ [][NextConc]_vars

\* The statements and continuations of the handler on connection p
Proceed(p) ==
    \/ EnrollCheck(p)
    \/ EnrollInsert(p)
    \/ EnrollDeadlock(p)
    \/ EnrollCommit(p)
    \/ EnrollRollback(p)
    \/ TimetableCheck(p)
    \/ TimetableWrite(p)
    \/ TimetableCommit(p)
    \/ TimetableRollback(p)

\* The server runs every statement it can run and the event loop every continuation that
\* is ready; when a request is sent is up to the clients
ConcFairness == \A p \in Connections : WF_vars(Proceed(p))

SpecConcFair == SpecConc /\ ConcFairness

----------------------------------------------------------------------------
(* Timetable mutations of several connections on the courses of one student *)

\* addTimetable and updateTimetable requests on courses 3 and 4, which student 2 holds:
\* slots on Wednesday that overlap each other, a slot that overlaps the stored one of the
\* other course, and an interval the store's CHECK refuses
MutationRequests ==
    { [op |-> "addTimetable", args |-> <<4, "Wednesday", T0900, T1000>>],
      [op |-> "addTimetable", args |-> <<3, "Wednesday", T0930, T1030>>],
      [op |-> "updateTimetable", args |-> <<3, "Wednesday", <<>>, <<>>>>],
      [op |-> "addTimetable", args |-> <<4, "Tuesday", T0930, T1030>>],
      [op |-> "addTimetable", args |-> <<4, "Monday", T1000, U0930>>] }

InitMutations ==
    /\ courses = ConcCourses
    /\ timetables = ConcTimetables
    /\ student_courses = SetToBag({ [student_id |-> 2, course_id |-> 3],
                                    [student_id |-> 2, course_id |-> 4] })
    /\ nextCourseId = 5
    /\ nextTimetableId = 4
    /\ last = NoCall
    /\ conn = [p \in Connections |-> IdleConn]

\* The input validation of addTimetable or updateTimetable, then db.getConnection()
StartMutation(p) ==
    /\ conn[p].pc = "idle"
    /\ \E r \in MutationRequests :
          LET inputError ==
                  IF r.op = "addTimetable"
                  THEN AddTimetableInputError(r.args[2], r.args[3], r.args[4])
                  ELSE IF r.args[2] # "" /\ ~IsValidDay(r.args[2]) THEN "Invalid day of week"
                  ELSE ""
              c == [conn[p] EXCEPT !.op = r.op, !.args = r.args]
          IN  conn' = [conn EXCEPT ![p] =
                          IF inputError # "" THEN Return(c, Fail(inputError, <<>>))
                          ELSE [c EXCEPT !.pc = "check"]]
    /\ UNCHANGED <<dbVars, last>>

NextMutations ==
    \E p \in Connections :
        \/ StartMutation(p)
        \/ TimetableCheck(p)
        \/ TimetableWrite(p)
        \/ TimetableCommit(p)
        \/ TimetableRollback(p)

SpecMutations == InitMutations /\ [][NextMutations]_vars

----------------------------------------------------------------------------
(* saveStudentCourses called with any JavaScript values, on several connections *)

\* studentId of a call: a number, 0, the string '1', or left out
JsStudentIds == { JsNumber(1), JsNumber(2), JsNumber(0), JsString(<<1>>), JsUndefined }

\* courseIds of a call: arrays, the empty array, the string '3', the number 3, or left out
JsCourseIds ==
    { JsArray(<<3>>), JsArray(<<3, 4>>), JsArray(<<4, 3>>), JsArray(<<>>),
      JsString(<<3>>), JsNumber(3), JsUndefined }

\* The input validation, then db.getConnection(): the handler returns at once on invalid
\* input and holds a connection (pc = "check") otherwise
StartEnroll(p) ==
    /\ conn[p].pc = "idle"
    /\ \E studentId \in JsStudentIds : \E courseIds \in JsCourseIds :
          LET inputError == EnrollInputError(studentId, courseIds)
              c == [conn[p] EXCEPT !.op = "saveStudentCourses",
                                   !.body = <<studentId, courseIds>>]
          IN  conn' = [conn EXCEPT ![p] =
                          IF inputError # "" THEN Return(c, Fail(inputError, <<>>))
                          ELSE [c EXCEPT !.pc = "check",
                                         !.args = <<studentId.value[1], courseIds.value>>]]
    /\ UNCHANGED <<dbVars, last>>

NextRequest ==
    \E p \in Connections :
        \/ StartEnroll(p)
        \/ EnrollCheck(p)
        \/ EnrollInsert(p)
        \/ EnrollDeadlock(p)
        \/ EnrollCommit(p)
        \/ EnrollRollback(p)

SpecRequest == InitConc /\ [][NextRequest]_vars

----------------------------------------------------------------------------
(* Vocabulary of the properties *)

\* The committed slots of the courses a student is enrolled in
ScheduleOf(studentId) ==
    { t \in timetables : CopiesIn([student_id |-> studentId, course_id |-> t.course_id],
                                   student_courses) > 0 }

\* Two different slots on one weekday whose half-open intervals intersect
Overlapping(t1, t2) ==
    /\ t1.timetable_id # t2.timetable_id
    /\ t1.day_of_week = t2.day_of_week
    /\ t1.start_time < t2.end_time
    /\ t2.start_time < t1.end_time

ConflictFree(studentId) == \A t1, t2 \in ScheduleOf(studentId) : ~Overlapping(t1, t2)

SlotsOf(courseIds) == { t \in timetables : t.course_id \in courseIds }

\* A step of Spec or SpecEnroll in which saveStudentCourses runs
EnrollStep == last.call.op = "none" /\ last'.call.op = "saveStudentCourses"

StudentExists(studentId) == \E s \in students : s.student_id = studentId

AllExist(courseIds) == \A id \in courseIds : \E c \in courses : c.course_id = id

\* The requested courses that belong to another college than the student
Offending(studentId, courseIds) ==
    { c \in courses : /\ c.course_id \in courseIds
                      /\ \E s \in students : /\ s.student_id = studentId
                                              /\ s.college_id # c.college_id }

IsEnroll(p) == conn[p].op = "saveStudentCourses" /\ conn[p].pc = "done"

IsTimetableOp(p) == conn[p].op \in {"addTimetable", "updateTimetable"} /\ conn[p].pc = "done"

\* One row per course of the deduplicated request
RequestedRows(p) ==
    SetToBag({ [student_id |-> conn[p].args[1], course_id |-> id] : id \in Range(conn[p].args[2]) })

----------------------------------------------------------------------------
(* Properties *)

\* C1: in every state reached by serial enroll, dropCourse, addTimetable, updateTimetable
\* and deleteTimetable calls, no student's enrolled courses (two slots of one course
\* included) have two slots on the same weekday whose intervals overlap.
C1_ScheduleInvariant == \A s \in students : ConflictFree(s.student_id)

\* C2: two concurrent enrolls of one student, each for a different single course, the
\* two courses having overlapping slots, never both leave their enrollment in the store.
C2_ConflictingEnrollsNotBothStored ==
    \A p, q \in Connections :
        ( /\ p # q /\ IsEnroll(p) /\ IsEnroll(q)
          /\ conn[p].args[1] = conn[q].args[1]
          /\ Len(conn[p].args[2]) = 1 /\ Len(conn[q].args[2]) = 1
          /\ conn[p].args[2] # conn[q].args[2]
          /\ \E t1 \in SlotsOf(Range(conn[p].args[2])) :
             \E t2 \in SlotsOf(Range(conn[q].args[2])) : Overlapping(t1, t2) )
        => ~( /\ BagIn([student_id |-> conn[p].args[1], course_id |-> conn[p].args[2][1]],
                       student_courses)
              /\ BagIn([student_id |-> conn[q].args[1], course_id |-> conn[q].args[2][1]],
                       student_courses) )

\* C3: an enroll of a student and a concurrent addTimetable or updateTimetable never both
\* succeed leaving the student with overlapping slots.
C3_EnrollAndTimetableChangeKeepSchedule ==
    \A p, q \in Connections :
        ( /\ IsEnroll(p) /\ conn[p].result.success
          /\ IsTimetableOp(q) /\ conn[q].result.success )
        => ConflictFree(conn[p].args[1])

\* C4: every enrollment joins a student and a course of the same college.
C4_CollegeMembership ==
    \A r \in BagToSet(student_courses) :
        \E s \in students : \E c \in courses :
            /\ s.student_id = r.student_id
            /\ c.course_id = r.course_id
            /\ s.college_id = c.college_id

\* C4 witness: a cross-college request was refused while the student holds an enrollment
C4_Witness ==
    /\ last.call.op = "saveStudentCourses"
    /\ last.result.error = "Courses do not belong to student's college"
    /\ student_courses # EmptyBag

\* C5: for an existing student and existing courses of which at least one belongs to
\* another college, saveStudentCourses fails with the cross-college error naming the codes
\* of exactly those courses, whatever the slots, and writes no enrollment.
C5_CrossCollegeRefused ==
    [][ ( /\ EnrollStep
          /\ StudentExists(last'.call.args[1])
          /\ AllExist(Range(last'.call.args[2]))
          /\ Offending(last'.call.args[1], Range(last'.call.args[2])) # {} )
        => /\ ~last'.result.success
           /\ last'.result.error = "Courses do not belong to student's college"
           /\ Range(last'.result.detail) =
                 { c.course_code : c \in Offending(last'.call.args[1], Range(last'.call.args[2])) }
           /\ Len(last'.result.detail) =
                 Cardinality(Offending(last'.call.args[1], Range(last'.call.args[2])))
           /\ student_courses' = student_courses ]_vars

\* C5 witness: a cross-college refusal of a request whose courses' slots overlap
C5_Witness ==
    /\ last.call.op = "saveStudentCourses"
    /\ last.result.error = "Courses do not belong to student's college"
    /\ Len(last.result.detail) = 1
    /\ Len(last.call.args[2]) = 2
    /\ \E t1, t2 \in SlotsOf(Range(last.call.args[2])) :
          t1.course_id # t2.course_id /\ Overlapping(t1, t2)

\* C6: when saveStudentCourses has returned, the rows it made durable are none, or exactly
\* one per course of the deduplicated request; never a strict non-empty part of them.
C6_BatchAtomicity ==
    \A p \in Connections :
        IsEnroll(p) => conn[p].durable = EmptyBag \/ conn[p].durable = RequestedRows(p)

\* C7: a handler that returned a failure has made no enrollment and no slot durable.
C7_FailureLeavesStoreUnchanged ==
    \A p \in Connections :
        (conn[p].pc = "done" /\ ~conn[p].result.success)
        => conn[p].durable = EmptyBag /\ conn[p].stored = {}

\* C8: enrolling a student in one course X the student is already enrolled in fails
\* with the already-enrolled error naming X's code, and one row (student, X) remains.
C8_ReEnrollIsAlreadyEnrolled ==
    [][ ( /\ EnrollStep
          /\ Len(last'.call.args[2]) = 1
          /\ BagIn([student_id |-> last'.call.args[1], course_id |-> last'.call.args[2][1]],
                   student_courses) )
        => /\ last'.result.error = "Student is already enrolled in"
           /\ \E c \in courses : /\ c.course_id = last'.call.args[2][1]
                                  /\ last'.result.detail = << c.course_code >>
           /\ CopiesIn([student_id |-> last'.call.args[1], course_id |-> last'.call.args[2][1]],
                       student_courses') = 1 ]_vars

\* C9: the store never holds two enrollments of one student in one course, also when
\* connections enroll the same student in the same course concurrently.
C9_Uniqueness ==
    \A r \in BagToSet(student_courses) : CopiesIn(r, student_courses) = 1

\* C9 witness: two connections ran the same enrollment; one was stored, one refused
C9_Witness ==
    \E p, q \in Connections :
        /\ p # q /\ IsEnroll(p) /\ IsEnroll(q)
        /\ conn[p].args = conn[q].args
        /\ conn[p].result.success /\ ~conn[q].result.success
        /\ conn[q].error = "ER_DUP_ENTRY"
        /\ CopiesIn([student_id |-> conn[p].args[1], course_id |-> conn[p].args[2][1]],
                    student_courses) = 1

\* C10: saveStudentCourses never succeeds, and writes nothing, when the slots of the
\* requested courses and of the courses the student is enrolled in hold two overlapping
\* slots of one weekday; a requested Wednesday 09:30-10:30 against an enrolled Wednesday
\* 09:00-10:00 of a same-college student is refused as a timetable clash.
C10_EnrollSoundness ==
    [][ EnrollStep =>
          LET studentId == last'.call.args[1]
              ids == Range(last'.call.args[2])
              slots == SlotsOf(ids) \cup ScheduleOf(studentId)
          IN  /\ (\E t1, t2 \in slots : Overlapping(t1, t2))
                    => ~last'.result.success /\ student_courses' = student_courses
              /\ ( /\ StudentExists(studentId) /\ AllExist(ids)
                   /\ Offending(studentId, ids) = {}
                   /\ \E t1 \in ScheduleOf(studentId) : \E t2 \in SlotsOf(ids) :
                         /\ t1.day_of_week = "Wednesday" /\ t2.day_of_week = "Wednesday"
                         /\ t1.start_time = 540 /\ t1.end_time = 600
                         /\ t2.start_time = 570 /\ t2.end_time = 630 )
                    => last'.result.error = "Timetable clash detected" ]_vars

\* C10 witness: a request for a course with a Wednesday 09:30-10:30 slot was refused as a
\* clash for a student enrolled in another course with a Wednesday 09:00-10:00 slot
C10_Witness ==
    /\ last.call.op = "saveStudentCourses"
    /\ last.result.error = "Timetable clash detected"
    /\ \E t1 \in ScheduleOf(last.call.args[1]) : \E t2 \in SlotsOf(Range(last.call.args[2])) :
          /\ t1.course_id # t2.course_id
          /\ t2 \notin ScheduleOf(last.call.args[1])
          /\ t1.day_of_week = "Wednesday" /\ t2.day_of_week = "Wednesday"
          /\ t1.start_time = 540 /\ t1.end_time = 600
          /\ t2.start_time = 570 /\ t2.end_time = 630

\* The lowest-numbered precondition of enroll that a request violates in the current
\* state, 0 if none: 1 student, 2 courses exist, 3 college, 4 overlap among the requested
\* slots, 5 overlap in the requested slots combined with the enrolled ones, 6 duplicate
FirstViolated(studentId, ids) ==
    IF ~StudentExists(studentId) THEN 1
    ELSE IF ~AllExist(ids) THEN 2
    ELSE IF Offending(studentId, ids) # {} THEN 3
    ELSE IF \E t1, t2 \in SlotsOf(ids) : Overlapping(t1, t2) THEN 4
    ELSE IF \/ \E t1 \in ScheduleOf(studentId) : \E t2 \in SlotsOf(ids) :
                  /\ t1.day_of_week = t2.day_of_week
                  /\ t1.start_time < t2.end_time /\ t2.start_time < t1.end_time
            \/ \E t1, t2 \in ScheduleOf(studentId) : Overlapping(t1, t2)
         THEN 5
    ELSE IF \E id \in ids : BagIn([student_id |-> studentId, course_id |-> id], student_courses)
         THEN 6
    ELSE 0

ErrorOfPrecondition ==
    << "Student not found", "Courses not found", "Courses do not belong to student's college",
       "Timetable clash detected", "Timetable clash detected", "Student is already enrolled in" >>

\* C11: a non-empty request of a valid student id fails with the failure of the
\* lowest-numbered precondition it violates (an overlap among the requested slots is
\* reported with two requested slots), and succeeds when it violates none.
C11_GuardOrdering ==
    [][ ( /\ EnrollStep
          /\ last'.call.args[1] # 0
          /\ last'.call.args[2] # <<>> )
        => LET n == FirstViolated(last'.call.args[1], Range(last'.call.args[2]))
           IN  /\ (n = 0) = last'.result.success
               /\ n # 0 => last'.result.error = ErrorOfPrecondition[n]
               /\ n = 4 => /\ last'.result.detail.slot.course_id \in Range(last'.call.args[2])
                           /\ last'.result.detail.existing.course_id \in Range(last'.call.args[2]) ]_vars

\* C11 witness: a request for an enrolled course with a slot (5 and 6 violated) was refused
\* as a clash, after a request with an unknown and a foreign course was refused as not found
C11_Witness ==
    /\ last.call.op = "saveStudentCourses"
    /\ last.result.error = "Timetable clash detected"
    /\ \E id \in Range(last.call.args[2]) :
          /\ BagIn([student_id |-> last.call.args[1], course_id |-> id], student_courses)
          /\ SlotsOf({id}) # {}
    /\ FirstViolated(last.call.args[1], Range(last.call.args[2])) = 5

\* C12: an enroll for a student id that resolves to no student fails with the
\* student-not-found failure whatever the course list is, the empty list included.
C12_StudentNotFoundFirst ==
    [][ ( /\ EnrollStep
          /\ last'.call.args[1] # 0
          /\ ~StudentExists(last'.call.args[1]) )
        => /\ ~last'.result.success
           /\ last'.result.error = "Student not found" ]_vars

\* C13: when an existing student requests a non-empty list of which some ids resolve to
\* no course, enroll fails with the courses-not-found failure naming each missing id once
\* and no existing id.
C13_MissingCoursesNamed ==
    [][ ( /\ EnrollStep
          /\ StudentExists(last'.call.args[1])
          /\ last'.call.args[2] # <<>>
          /\ ~AllExist(Range(last'.call.args[2])) )
        => /\ ~last'.result.success
           /\ last'.result.error = "Courses not found"
           /\ Range(last'.result.detail) =
                 Range(last'.call.args[2]) \ { c.course_id : c \in courses }
           /\ Len(last'.result.detail) = Cardinality(Range(last'.result.detail)) ]_vars

\* C13 witness: a request repeating an id, with an existing and a missing course, was
\* refused naming the one missing id
C13_Witness ==
    /\ last.call.op = "saveStudentCourses"
    /\ last.result.error = "Courses not found"
    /\ \E id \in Range(last.call.args[2]) : \E c \in courses : c.course_id = id
    /\ Len(last.result.detail) < Len(last.call.args[2])

\* The pairs of positions i < j of a slot sequence whose slots share the weekday and
\* satisfy s1 < e2 and e1 > s2
ConflictingPositions(slots) ==
    { ij \in (1..Len(slots)) \X (1..Len(slots)) :
        /\ ij[1] < ij[2]
        /\ slots[ij[1]].day_of_week = slots[ij[2]].day_of_week
        /\ slots[ij[1]].start_time < slots[ij[2]].end_time
        /\ slots[ij[1]].end_time > slots[ij[2]].start_time }

\* C14: checkTimetableClashes reports a clash exactly when two positions of the sequence
\* hold slots of one weekday with s1 < e2 and e1 > s2; so other weekdays and back-to-back
\* slots pass, identical intervals of one weekday clash, and the empty and the one-slot
\* sequence pass.
C14_CheckerCorrect ==
    last.call.op = "checkTimetableClashes"
    => /\ last.result.success = (ConflictingPositions(last.call.args) = {})
       /\ ~last.result.success => last.result.error = "Timetable clash detected"
       /\ Len(last.call.args) <= 1 => last.result.success

\* C14 witness: three slots passed of which two are back to back on one weekday and two
\* have the same interval on different weekdays
C14_Witness ==
    /\ last.call.op = "checkTimetableClashes"
    /\ last.result.success
    /\ Len(last.call.args) = 3
    /\ \E i, j \in 1..3 : /\ last.call.args[i].day_of_week = last.call.args[j].day_of_week
                          /\ last.call.args[i].end_time = last.call.args[j].start_time
    /\ \E i, j \in 1..3 : /\ last.call.args[i].day_of_week # last.call.args[j].day_of_week
                          /\ last.call.args[i].start_time = last.call.args[j].start_time
                          /\ last.call.args[i].end_time = last.call.args[j].end_time

\* C15: on intervals with start < end, timeSlotsOverlap gives the same answer in both
\* argument orders and holds of an interval and itself.
C15_OverlapSymmetricReflexive ==
    last.call.op = "timeSlotsOverlap"
    => /\ last.result.detail[1] = last.result.detail[2]
       /\ last.result.detail[3] = TRUE

\* C15 witness: two different intervals that overlap partly were compared
C15_Witness ==
    /\ last.call.op = "timeSlotsOverlap"
    /\ last.call.args[1] = <<570, 630>>
    /\ last.call.args[2] = <<540, 600>>
    /\ last.result.detail = <<TRUE, TRUE, TRUE>>

\* C16: a failing checkTimetableClashes reports the pair (i, j) with j the smallest
\* position that overlaps an earlier slot of its weekday and i the smallest such earlier
\* position: the weekday, and the code and interval of exactly those two slots.
C16_FirstPairReported ==
    (last.call.op = "checkTimetableClashes" /\ ~last.result.success)
    => LET slots == last.call.args
           pairs == ConflictingPositions(slots)
           j == CHOOSE j \in { ij[2] : ij \in pairs } : \A ij \in pairs : j <= ij[2]
           i == CHOOSE i \in { ij[1] : ij \in { p \in pairs : p[2] = j } } :
                    \A ij \in pairs : ij[2] = j => i <= ij[1]
       IN  /\ last.result.detail.day = slots[j].day_of_week
           /\ last.result.detail.slot = JsSlot(slots[j])
           /\ last.result.detail.existing = JsSlot(slots[i])

\* C16 witness: a sequence with several conflicting pairs in which the third slot
\* clashes with the first and the second was reported
C16_Witness ==
    /\ last.call.op = "checkTimetableClashes"
    /\ ~last.result.success
    /\ {<<1, 3>>, <<2, 3>>} \subseteq ConflictingPositions(last.call.args)
    /\ <<1, 2>> \notin ConflictingPositions(last.call.args)
    /\ last.call.args[1] # last.call.args[2]
    /\ last.result.detail.existing = JsSlot(last.call.args[1])

\* A step of Spec or SpecAdmin in which addTimetable runs
AddStep == last.call.op = "none" /\ last'.call.op = "addTimetable"

\* A step of Spec or SpecAdmin in which updateTimetable runs
UpdateStep == last.call.op = "none" /\ last'.call.op = "updateTimetable"

\* A zero-padded 'HH:MM:SS' string
IsTimeOfDay(str) == Len(str) = 8 /\ str[3] = 10 /\ str[6] = 10

WellFormedSlot(dayOfWeek, startTime, endTime) ==
    /\ dayOfWeek \in Range(validDays)
    /\ IsTimeOfDay(startTime) /\ IsTimeOfDay(endTime)
    /\ ParseTime(startTime) < ParseTime(endTime)

\* The students enrolled in courseId with each slot, of another course they are enrolled
\* in, that overlaps the candidate on its weekday
AffectedByCandidate(courseId, dayOfWeek, startMin, endMin) ==
    { st \in students \X timetables :
        /\ BagIn([student_id |-> st[1].student_id, course_id |-> courseId], student_courses)
        /\ BagIn([student_id |-> st[1].student_id, course_id |-> st[2].course_id], student_courses)
        /\ st[2].course_id # courseId
        /\ st[2].day_of_week = dayOfWeek
        /\ st[2].start_time < endMin
        /\ st[2].end_time > startMin }

\* What a conflicts list names: the student and the slot's course, weekday and interval
Named(conflicts) ==
    { << r.student_id, r.course_code, r.day_of_week,
         ParseTime(r.start_time), ParseTime(r.end_time) >> : r \in conflicts }

NamesOf(affected) ==
    { << st[1].student_id,
         (CHOOSE c \in courses : c.course_id = st[2].course_id).course_code,
         st[2].day_of_week, st[2].start_time, st[2].end_time >> : st \in affected }

\* C17: for an existing course and a well-formed candidate slot, addTimetable is refused
\* as a conflict exactly when a student enrolled in the course is enrolled in another
\* course with a slot overlapping the candidate on its weekday; the refusal names every
\* such student with the slot and stores nothing; otherwise the slot is stored.
C17_AddTimeSlotGuard ==
    [][ ( /\ AddStep
          /\ \E c \in courses : c.course_id = last'.call.args[1]
          /\ WellFormedSlot(last'.call.args[2], last'.call.args[3], last'.call.args[4]) )
        => LET a == last'.call.args
               affected == AffectedByCandidate(a[1], a[2], ParseTime(a[3]), ParseTime(a[4]))
           IN  IF affected # {}
               THEN /\ ~last'.result.success
                    /\ last'.result.error = "Cannot add timetable: Would create conflicts"
                    /\ Named(last'.result.detail.conflicts) = NamesOf(affected)
                    /\ timetables' = timetables
               ELSE /\ last'.result.success
                    /\ timetables' = timetables \cup
                          { [timetable_id |-> nextTimetableId, course_id |-> a[1],
                             day_of_week |-> a[2], start_time |-> ParseTime(a[3]),
                             end_time |-> ParseTime(a[4])] } ]_vars

\* C17 witness: a candidate was refused naming both students
C17_Witness ==
    /\ last.call.op = "addTimetable"
    /\ last.result.error = "Cannot add timetable: Would create conflicts"
    /\ { r.student_id : r \in last.result.detail.conflicts } = {1, 2}

\* The value a field of an update takes: the given one, or the stored one when it is absent
Updated(given, absent, stored) == IF given = absent THEN stored ELSE given

\* C18: for an existing slot of course C whose updated value is well-formed,
\* updateTimetable is refused as a conflict exactly when a student enrolled in C has, in
\* another course the student is enrolled in, a slot overlapping the updated slot on its
\* weekday: the rule addTimetable applies to a candidate of C.
C18_UpdateTimeSlotGuard ==
    [][ ( /\ UpdateStep
          /\ \E t \in timetables : t.timetable_id = last'.call.args[1] )
        => LET a == last'.call.args
               t == CHOOSE t \in timetables : t.timetable_id = a[1]
               day == Updated(a[2], "", t.day_of_week)
               start == Updated(a[3], <<>>, FormatTime(t.start_time))
               end == Updated(a[4], <<>>, FormatTime(t.end_time))
           IN  WellFormedSlot(day, start, end)
               => ( (~last'.result.success /\ last'.result.error =
                                               "Cannot update timetable: Would create conflicts")
                    = (AffectedByCandidate(t.course_id, day, ParseTime(start), ParseTime(end)) # {}) )
      ]_vars

\* The failures of the timetable operations that report invalid input
InvalidTimetableInput == { "Invalid day of week", "Start time must be before end time" }

\* An interval of two zero-padded times that does not end after it starts
MalformedInterval(startTime, endTime) ==
    /\ IsTimeOfDay(startTime) /\ IsTimeOfDay(endTime)
    /\ ParseTime(startTime) >= ParseTime(endTime)

\* The interval an update results in: the given bounds, and the stored ones of the slot
\* for those the request leaves out; <<>> for a bound that is given nowhere
ResultingBound(timetableId, given, field) ==
    IF given # <<>> THEN given
    ELSE IF \E t \in timetables : t.timetable_id = timetableId
    THEN FormatTime((CHOOSE t \in timetables : t.timetable_id = timetableId)[field])
    ELSE <<>>

\* C19 (addTimetable half): an addTimetable request whose interval has start >= end is
\* refused as invalid input and stores nothing, whether or not its course exists.
C19_AddFailsFast ==
    [][ ( AddStep /\ MalformedInterval(last'.call.args[3], last'.call.args[4]) )
        => /\ ~last'.result.success
           /\ last'.result.error \in InvalidTimetableInput
           /\ dbVars' = dbVars ]_vars

\* C19: an addTimetable or updateTimetable request whose resulting interval has
\* start >= end is refused as invalid input before any lookup, so also when the course
\* or the slot it names does not exist.
C19_MalformedIntervalsFailFast ==
    [][ /\ ( AddStep /\ MalformedInterval(last'.call.args[3], last'.call.args[4]) )
           => ( ~last'.result.success /\ last'.result.error \in InvalidTimetableInput )
        /\ ( /\ UpdateStep
             /\ MalformedInterval(ResultingBound(last'.call.args[1], last'.call.args[3], "start_time"),
                                  ResultingBound(last'.call.args[1], last'.call.args[4], "end_time")) )
           => ( ~last'.result.success /\ last'.result.error \in InvalidTimetableInput )
      ]_vars

\* The call's input is invalid: studentId is not a number, courseIds is not an array,
\* or courseIds is empty
InvalidEnrollInput(body) ==
    \/ body[1].type # "number"
    \/ body[2].type # "array"
    \/ body[2].value = <<>>

InvalidEnrollErrors ==
    { "Invalid student ID provided", "Course IDs must be provided as an array",
      "Course list cannot be empty" }

\* C20: a saveStudentCourses call whose studentId is not a number, or whose courseIds is
\* no array or is empty, has returned one of the invalid-input failures and is at no
\* point holding a connection, in a transaction or past a query: it has no snapshot,
\* has written nothing, and the store is as it was set up.
C20_InvalidInputNeverReachesStorage ==
    \A p \in Connections :
        ( conn[p].op = "saveStudentCourses" /\ conn[p].body # <<>>
          /\ InvalidEnrollInput(conn[p].body) )
        => /\ conn[p].pc = "done"
           /\ ~conn[p].result.success
           /\ conn[p].result.error \in InvalidEnrollErrors
           /\ ~conn[p].inTx
           /\ conn[p].snap = IdleConn.snap
           /\ conn[p].pending = EmptyBag /\ conn[p].durable = EmptyBag
           /\ conn[p].args = <<>>

\* Calls with a string for studentId and with a string, a number and the empty array for
\* courseIds have returned, while no connection was ever taken
C20_Witness ==
    /\ \A p \in Connections : conn[p].pc = "done" /\ InvalidEnrollInput(conn[p].body)
    /\ \E p \in Connections : conn[p].body[1].type = "string"
    /\ \E p \in Connections :
          conn[p].body[1].type = "number" /\ conn[p].body[2].type \in {"string", "number"}
    /\ student_courses = SetToBag({ [student_id |-> 1, course_id |-> 1] })

\* C21: in every state reached through addTimetable, updateTimetable with any part of
\* the slot supplied, and deleteTimetable, every stored slot starts before it ends and is
\* on one of the seven weekdays.
C21_WellFormedSlots ==
    \A t \in timetables :
        /\ t.start_time < t.end_time
        /\ t.day_of_week \in Range(validDays)

\* An update that supplied only a start time has been stored next to an added slot
C21_Witness ==
    /\ last.call.op = "updateTimetable" /\ last.result.success
    /\ last.call.args[2] = "" /\ last.call.args[3] # <<>> /\ last.call.args[4] = <<>>
    /\ Cardinality(timetables) = 2
    /\ \E t \in timetables : t.timetable_id = last.call.args[1]
                              /\ t.start_time = ParseTime(last.call.args[3])

\* A step of Spec or SpecEnroll in which dropCourse runs
DropStep == last.call.op = "none" /\ last'.call.op = "dropCourse"

\* C22: dropCourse(student, course) fails with 'Enrollment not found' and changes nothing
\* when no enrollment of that pair is stored; when one is stored it succeeds and the pair
\* is not stored afterwards, so that a second drop of it fails with 'Enrollment not found'.
C22_DropNotFound ==
    [][ DropStep
        => LET row == [student_id |-> last'.call.args[1], course_id |-> last'.call.args[2]]
           IN  IF ~BagIn(row, student_courses)
               THEN /\ ~last'.result.success
                    /\ last'.result.error = "Enrollment not found"
                    /\ dbVars' = dbVars
               ELSE /\ last'.result.success
                    /\ ~BagIn(row, student_courses') ]_vars

\* A drop of a course student 1 does not hold has failed while the student holds another
C22_Witness ==
    /\ last.call.op = "dropCourse"
    /\ last.result.error = "Enrollment not found"
    /\ last.call.args[1] = 1
    /\ \E r \in BagToSet(student_courses) : r.student_id = 1

\* A step of Spec in which deleteTimetable runs
DeleteStep == last.call.op = "none" /\ last'.call.op = "deleteTimetable"

\* The slots among `slots` of the courses a student holds in `enrolled` do not overlap
ConflictFreeIn(slots, enrolled, studentId) ==
    \A t1, t2 \in { t \in slots : BagIn([student_id |-> studentId, course_id |-> t.course_id],
                                          enrolled) } :
        ~Overlapping(t1, t2)

\* C23: deleteTimetable succeeds for every stored slot, whoever is enrolled in its
\* course, and removes that slot and nothing else; for an id no slot has it fails with
\* 'Timetable not found' and changes nothing; and when every student's schedule was free
\* of overlaps before the deletion it is free of overlaps after it.
C23_DeleteTimeSlot ==
    [][ DeleteStep
        => /\ IF \E t \in timetables : t.timetable_id = last'.call.args[1]
              THEN /\ last'.result.success
                   /\ timetables' = { t \in timetables : t.timetable_id # last'.call.args[1] }
              ELSE /\ ~last'.result.success
                   /\ last'.result.error = "Timetable not found"
                   /\ timetables' = timetables
           /\ UNCHANGED <<courses, student_courses, nextCourseId, nextTimetableId>>
           /\ (\A st \in students : ConflictFreeIn(timetables, student_courses, st.student_id))
              => (\A st \in students :
                     ConflictFreeIn(timetables', student_courses', st.student_id)) ]_vars

\* A slot of a course that student 1 is enrolled in has been deleted
C23_Witness ==
    /\ last.call.op = "deleteTimetable" /\ last.result.success
    /\ BagIn([student_id |-> 1, course_id |-> 1], student_courses)
    /\ \A t \in timetables : t.course_id # 1 \/ t.timetable_id # last.call.args[1]
    /\ ScheduleOf(1) = {}

WithoutDuplicates(ids) ==
    LET F[i \in 0..Len(ids)] ==
            IF i = 0 THEN <<>>
            ELSE IF \E k \in 1..(i - 1) : ids[k] = ids[i] THEN F[i - 1]
            ELSE Append(F[i - 1], ids[i])
    IN  F[Len(ids)]

\* C25: saveStudentCourses(student, L) can return exactly the results, and leave exactly
\* the enrollments stored, that saveStudentCourses(student, L') can for L' = L without its
\* repeated ids; the call that ran returned one of them, and no requested course is
\* stored twice for the student.
C25_DeduplicationEquivalence ==
    [][ EnrollStep
        => LET studentId == last'.call.args[1]
               L == last'.call.args[2]
           IN  /\ EnrollOutcomes(Db, studentId, L)
                    = EnrollOutcomes(Db, studentId, WithoutDuplicates(L))
               /\ [result |-> last'.result, student_courses |-> student_courses']
                    \in EnrollOutcomes(Db, studentId, WithoutDuplicates(L))
               /\ \A id \in Range(L) :
                     CopiesIn([student_id |-> studentId, course_id |-> id], student_courses') <= 1
      ]_vars

\* A request that names course 1 twice has enrolled student 1 in it once
C25_Witness ==
    /\ last.call.op = "saveStudentCourses" /\ last.result.success
    /\ Len(last.call.args[2]) = 2
    /\ last.call.args[2][1] = last.call.args[2][2]
    /\ CopiesIn([student_id |-> last.call.args[1], course_id |-> last.call.args[2][1]],
                student_courses) = 1
    /\ SlotsOf({last.call.args[2][1]}) # {}

\* C26: a successful updateTimetable stores, for the slot it names, the supplied weekday,
\* start and end and the stored value of every field left out; the slot keeps its course,
\* and no other slot, no enrollment and no course changes.
C26_PartialUpdateFrame ==
    [][ ( UpdateStep /\ last'.result.success )
        => LET a == last'.call.args
           IN  \E t \in timetables :
                  /\ t.timetable_id = a[1]
                  /\ timetables' =
                        (timetables \ {t}) \cup
                        { [timetable_id |-> t.timetable_id,
                           course_id |-> t.course_id,
                           day_of_week |-> IF a[2] = "" THEN t.day_of_week ELSE a[2],
                           start_time |-> IF a[3] = <<>> THEN t.start_time ELSE ParseTime(a[3]),
                           end_time |-> IF a[4] = <<>> THEN t.end_time ELSE ParseTime(a[4])] }
                  /\ student_courses' = student_courses
                  /\ courses' = courses
      ]_vars

\* An update that supplied only the start has moved one of two stored slots while a
\* student is enrolled
C26_Witness ==
    /\ last.call.op = "updateTimetable" /\ last.result.success
    /\ last.call.args[2] = "" /\ last.call.args[3] = T0930 /\ last.call.args[4] = <<>>
    /\ Cardinality(timetables) = 2
    /\ \E t \in timetables : /\ t.timetable_id = last.call.args[1]
                              /\ t.start_time = 570 /\ t.end_time \in {600, 630}
    /\ student_courses # EmptyBag

\* C27 (serial half): in serial execution a step changes the stored enrollments only if
\* it is a successful saveStudentCourses, which adds one row for each requested course
\* and removes none, or a successful dropCourse, which removes the rows of the pair it
\* names and no other.
C27_SerialEnrollmentFrame ==
    [][ student_courses' # student_courses
        => \/ /\ EnrollStep /\ last'.result.success
              /\ student_courses' =
                    student_courses (+)
                    SetToBag({ [student_id |-> last'.call.args[1], course_id |-> id] :
                                 id \in Range(last'.call.args[2]) })
           \/ /\ DropStep /\ last'.result.success
              /\ student_courses' =
                    DeleteRows(student_courses, [student_id |-> last'.call.args[1],
                                                 course_id |-> last'.call.args[2]])
      ]_vars

\* C27: enrollments are added only by a saveStudentCourses that succeeds: a step that
\* changes the stored enrollments is the commit of an enroll that returns success with
\* exactly its requested rows added.
C27_EnrollmentFrame ==
    [][ student_courses' # student_courses
        => \E p \in Connections :
              /\ conn[p].op = "saveStudentCourses"
              /\ conn'[p].pc = "done" /\ conn'[p].result.success
              /\ student_courses' = student_courses (+) RequestedRows(p)
      ]_vars

\* The failures saveStudentCourses returns when the store rejects a statement
StorageFailures ==
    { "Student and course must belong to the same college",
      "Timetable clash detected with existing course enrollment",
      "An error occurred while processing enrollment" }

\* C28: in serial execution, a request that passes the guards of saveStudentCourses, on
\* whatever order its queries return their rows in, has none of its INSERTs rejected by
\* the unique key, the foreign keys or the triggers; no call returns a failure of the store.
C28_StorageNeverDisagrees ==
    [][ EnrollStep
        => LET studentId == last'.call.args[1]
               uniqueCourseIds == Dedup(last'.call.args[2])
           IN  /\ last'.result.error \notin StorageFailures
               /\ ( studentId # 0 /\ uniqueCourseIds # <<>> )
                  => \A timetableRows \in SelectTimetables(Db, Range(uniqueCourseIds)) :
                     \A existingEnrollments \in SelectExistingEnrollments(Db, studentId) :
                        EnrollChecks(Db, studentId, uniqueCourseIds,
                                     timetableRows, existingEnrollments).success
                        => /\ RunInserts(Db, studentId, uniqueCourseIds, 1, "").error = ""
                           /\ last'.result.success
      ]_vars

\* Two courses with slots were accepted for a student who held none: the triggers ran on
\* the second INSERT with the first one's row in view
C28_Witness ==
    /\ last.call.op = "saveStudentCourses" /\ last.result.success
    /\ Len(last.call.args[2]) = 2
    /\ \A id \in Range(last.call.args[2]) : SlotsOf({id}) # {}
    /\ Cardinality(ScheduleOf(last.call.args[1])) >= 2

\* C29: a handler of saveStudentCourses, addTimetable or updateTimetable that took a
\* connection has, when it returns, begun one transaction, ended it with commit if it
\* returns success and with rollback on every other path, and released the connection
\* once, after that; until it returns it has released nothing.
C29_TransactionLifecycle ==
    \A p \in Connections :
        /\ conn[p].pc \in {"insert", "write", "commit", "rollback"}
           => conn[p].calls = <<"beginTransaction">>
        /\ ( conn[p].pc = "done" /\ conn[p].calls # <<>> )
           => /\ conn[p].calls = << "beginTransaction",
                                    IF conn[p].result.success THEN "commit" ELSE "rollback",
                                    "release" >>
              /\ ~conn[p].inTx
        /\ ( conn[p].pc = "done" /\ conn[p].result.success ) => conn[p].calls # <<>>

\* One handler has committed and returned success while the other, whose INSERT the store
\* rejected, has rolled back and returned the failure of the catch block
C29_Witness ==
    \E p, q \in Connections :
        /\ conn[p].pc = "done" /\ conn[p].result.success
        /\ conn[p].calls = <<"beginTransaction", "commit", "release">>
        /\ conn[q].pc = "done" /\ conn[q].error # ""
        /\ conn[q].calls = <<"beginTransaction", "rollback", "release">>

\* C30: in serial execution, when saveStudentCourses fails with a timetable clash, one of
\* the two slots it reports belongs to a requested course.
C30_NoSpuriousRejection ==
    [][ ( EnrollStep /\ last'.result.error = "Timetable clash detected" )
        => \/ last'.result.detail.slot.course_id \in Range(last'.call.args[2])
           \/ last'.result.detail.existing.course_id \in Range(last'.call.args[2])
      ]_vars

\* C31: two addTimetable or updateTimetable calls on different courses that a student
\* holds both of never both return success having stored slots that overlap each other.
C31_ConcurrentMutationsKeepSchedule ==
    \A p, q \in Connections :
        ( /\ IsTimetableOp(p) /\ conn[p].result.success
          /\ IsTimetableOp(q) /\ conn[q].result.success )
        => \A r1 \in conn[p].stored : \A r2 \in conn[q].stored :
              ( /\ r1.course_id # r2.course_id
                /\ \E st \in students :
                      /\ BagIn([student_id |-> st.student_id, course_id |-> r1.course_id],
                               student_courses)
                      /\ BagIn([student_id |-> st.student_id, course_id |-> r2.course_id],
                               student_courses) )
              => ~( /\ { r1, r2 } \subseteq timetables
                    /\ Overlapping(r1, r2) )

====
